---- MODULE Spec2Model ----
(***************************************************************************)
(* A model of the XDR runtime codec (xdr-codec/src/lib.rs) and of the      *)
(* command-line driver of the code generator (xdrgen/src/xdrgen.rs).       *)
(*                                                                         *)
(* Representation of Rust values:                                          *)
(*   u8                 a number 0..255                                    *)
(*   u32 i32 f32        the 32-bit pattern, two 16-bit limbs, high first   *)
(*   u64 i64 f64 usize  the 64-bit pattern, four 16-bit limbs, high first  *)
(*   bool               TRUE / FALSE                                       *)
(*   ()                 <<>>                                               *)
(*   Vec<T>, [T]        a sequence of T values                             *)
(*   String, str        the sequence of its UTF-8 bytes                    *)
(*   Option<T>          <<>> for None, <<v>> for Some(v)                   *)
(*   Box<T>             [boxed |-> v]                                      *)
(* Integers are held as bit patterns because the checker's integers are    *)
(* narrower than u32; usize is the 64-bit usize of the usual targets.      *)
(***************************************************************************)
EXTENDS Integers, Sequences, FiniteSets, TLC

\* Longest Vec / String value, and the longest fixed-size array, explored.
MaxLen == 2

\* Fixed capacity of the bounded sink (a byte slice used as a writer).
SliceCap == 6

----------------------------------------------------------------------------
(* Types implementing Pack and Unpack *)

U8 == <<"u8">>
U32 == <<"u32">>
I32 == <<"i32">>
U64 == <<"u64">>
I64 == <<"i64">>
F32 == <<"f32">>
F64 == <<"f64">>
Bool == <<"bool">>
Unit == <<"unit">>
Usize == <<"usize">>
Str == <<"string">>
VecOf(T) == <<"vec", T>>
OptionOf(T) == <<"option", T>>
BoxOf(T) == <<"box", T>>

Scalars == {U8, U32, I32, U64, I64, F32, F64, Bool, Unit, Usize}

\* The nestings explored: every scalar under each constructor (a Vec of the
\* zero-sized unit type is left out), text, and a selection two levels deep.
Nested ==
    {VecOf(OptionOf(U64)), VecOf(VecOf(U8)), VecOf(Str), VecOf(BoxOf(U8)),
     OptionOf(VecOf(U8)), OptionOf(Str), OptionOf(BoxOf(U8)),
     OptionOf(OptionOf(Bool)), BoxOf(OptionOf(U8)), BoxOf(VecOf(Bool))}

Types ==
    Scalars \cup {Str}
      \cup {VecOf(T) : T \in Scalars \ {Unit}}
      \cup {OptionOf(T) : T \in Scalars}
      \cup {BoxOf(T) : T \in Scalars}
      \cup Nested

----------------------------------------------------------------------------
(* Bit patterns *)

Limb == 256 * 256

\* `x as u32` for a usize x: the low 32 bits.
UsizeAsU32(x) == <<x[3], x[4]>>

\* `v as usize` for a u32 v: zero extension.
U32AsUsize(v) == <<0, 0, v[1], v[2]>>

\* `b as u32` for a bool b.
BoolAsU32(b) == IF b THEN <<0, 1>> ELSE <<0, 0>>

\* self.len() of a slice of n elements, as a usize.
LenAsUsize(n) == <<0, 0, n \div Limb, n % Limb>>

\* The number of iterations of `0..elems` for a usize decoded from a u32.
\* A count of 65536 or more exceeds every input explored, and each element
\* type explored under Vec occupies at least one byte, so the loop then runs
\* until the source is exhausted: Limb iterations are as good as the count.
RangeLen(elems) ==
    IF elems[1] = 0 /\ elems[2] = 0 /\ elems[3] = 0 THEN elems[4] ELSE Limb

\* Big-endian bytes of a 16-bit limb.
LimbBytes(l) == <<l \div 256, l % 256>>

\* BigEndian byte order of a bit pattern held as limbs, high limb first.
RECURSIVE BigEndianBytes(_)
BigEndianBytes(w) ==
    IF w = <<>> THEN <<>> ELSE LimbBytes(Head(w)) \o BigEndianBytes(Tail(w))

\* The bit pattern of big-endian bytes (an even number of them).
RECURSIVE BigEndianValue(_)
BigEndianValue(b) ==
    IF b = <<>> THEN <<>>
    ELSE <<b[1] * 256 + b[2]>> \o BigEndianValue(Tail(Tail(b)))

\* std::string::String::from_utf8's validity check (Unicode Table 3-7).
IsCont(b) == b >= 128 /\ b <= 191
RECURSIVE IsUtf8(_)
IsUtf8(b) ==
    IF b = <<>> THEN TRUE
    ELSE LET c == b[1]
             n == Len(b)
         IN  IF c <= 127 THEN IsUtf8(Tail(b))
             ELSE IF c >= 194 /\ c <= 223
                  THEN n >= 2 /\ IsCont(b[2]) /\ IsUtf8(SubSeq(b, 3, n))
             ELSE IF c >= 224 /\ c <= 239
                  THEN /\ n >= 3
                       /\ IsCont(b[2]) /\ IsCont(b[3])
                       /\ (c = 224 => b[2] >= 160)
                       /\ (c = 237 => b[2] <= 159)
                       /\ IsUtf8(SubSeq(b, 4, n))
             ELSE IF c >= 240 /\ c <= 244
                  THEN /\ n >= 4
                       /\ IsCont(b[2]) /\ IsCont(b[3]) /\ IsCont(b[4])
                       /\ (c = 240 => b[2] >= 144)
                       /\ (c = 244 => b[2] <= 143)
                       /\ IsUtf8(SubSeq(b, 5, n))
             ELSE FALSE

----------------------------------------------------------------------------
(* The values explored of each type *)

U8Samples == {7, 255}
Bits32Samples == {<<258, 772>>, <<65535, 65534>>}
Bits64Samples == {<<0, 0, 0, 5>>, <<33023, 772, 1286, 65534>>}
UsizeSamples == {<<0, 0, 0, 3>>, <<0, 1, 0, 3>>}
Utf8Bytes == {97, 195, 169}

SeqsUpTo(S, n) == UNION {[1..k -> S] : k \in 0..n}

Smaller(n) == n \div 2

\* Values(T, n): the values of type T whose outermost sequences have at most
\* n elements, sequences nested in them at most half as many, and so on.
RECURSIVE Values(_, _)
Values(T, n) ==
    CASE T[1] = "u8" -> U8Samples
      [] T[1] \in {"u32", "i32", "f32"} -> Bits32Samples
      [] T[1] \in {"u64", "i64", "f64"} -> Bits64Samples
      [] T[1] = "usize" -> UsizeSamples
      [] T[1] = "bool" -> BOOLEAN
      [] T[1] = "unit" -> {<<>>}
      [] T[1] = "string" -> {s \in SeqsUpTo(Utf8Bytes, n) : IsUtf8(s)}
      [] T[1] = "vec" -> SeqsUpTo(Values(T[2], Smaller(n)), n)
      [] T[1] = "option" -> {<<>>} \cup {<<v>> : v \in Values(T[2], n)}
      [] T[1] = "box" -> {[boxed |-> v] : v \in Values(T[2], n)}

----------------------------------------------------------------------------
(* The byte sink: a std::io::Write.  cap < 0 is a growable Vec<u8>; cap >= 0 *)
(* is a writer over a fixed slice of cap bytes, whose write_all stores what  *)
(* fits and then fails.                                                      *)

Room(out) == IF out.cap < 0 THEN -1 ELSE out.cap - Len(out.buf)

\* Write::write_all as the byteorder write_* methods call it: the outcome of
\* writing `bytes`, [ok, out].
WriteAll(out, bytes) ==
    IF Room(out) < 0 \/ Len(bytes) <= Room(out)
    THEN [ok |-> TRUE, out |-> [out EXCEPT !.buf = @ \o bytes]]
    ELSE [ok |-> FALSE,
          out |-> [out EXCEPT !.buf = @ \o SubSeq(bytes, 1, Room(out))]]

\* The result of a pack call: Ok(sz) or Err(err), and the sink as it leaves it.
PackOk(sz, out) == [ok |-> TRUE, err |-> "none", sz |-> sz, out |-> out]
PackErr(err, out) == [ok |-> FALSE, err |-> err, sz |-> 0, out |-> out]

\* try!(r), then the rest of the function, K, on r's Ok; r's Err is returned.
Try(r, K(_)) == IF r.ok THEN K(r) ELSE r

\* .map_err(Error::from).map(|_| n) on the outcome w of a write
MapWritten(w, n) == IF w.ok THEN PackOk(n, w.out) ELSE PackErr("IOError", w.out)

\* out.write_<width>::<BigEndian>(v).map_err(Error::from).map(|_| n)
WriteScalar(bytes, n, out) == MapWritten(WriteAll(out, bytes), n)

----------------------------------------------------------------------------
(* Pack *)

\* padding, with the remainder taken for the padding.
padding_remainder(sz) == sz % 4

\* padding, without the outer reduction: 4 for an aligned size.
padding_unreduced(sz) == 4 - (sz % 4)

\* return padding needed
padding(sz) == (4 - (sz % 4)) % 4

\* u8's pack, reporting the 4-byte slot XDR gives a lone byte.
PackU8_slot(v, out) == WriteScalar(<<v>>, 4, out)

PackU8(v, out) == WriteScalar(<<v>>, 1, out)
PackU32(v, out) == WriteScalar(BigEndianBytes(v), 4, out)
PackI32(v, out) == WriteScalar(BigEndianBytes(v), 4, out)
PackU64(v, out) == WriteScalar(BigEndianBytes(v), 8, out)
PackI64(v, out) == WriteScalar(BigEndianBytes(v), 8, out)
PackF32(v, out) == WriteScalar(BigEndianBytes(v), 4, out)
PackF64(v, out) == WriteScalar(BigEndianBytes(v), 8, out)
PackBool(v, out) == PackU32(BoolAsU32(v), out)
PackUnit(v, out) == PackOk(0, out)
PackUsize(v, out) == PackU32(UsizeAsU32(v), out)

\* `for _ in 0..n { sz += try!(0u8.pack(out)); }`
RECURSIVE PackPadding(_, _, _)
PackPadding(n, sz, out) ==
    IF n = 0 THEN PackOk(sz, out)
    ELSE Try(PackU8(0, out), LAMBDA r : PackPadding(n - 1, sz + r.sz, r.out))

RECURSIVE Pack(_, _, _)

\* `for it in self { sz += try!(it.pack(out)) }`
RECURSIVE PackElements(_, _, _, _)
PackElements(T, val, sz, out) ==
    IF val = <<>> THEN PackOk(sz, out)
    ELSE Try(Pack(T, Head(val), out), LAMBDA r :
             PackElements(T, Tail(val), sz + r.sz, r.out))

\* impl Pack for [T] (and, through it, Vec<T> and str)
PackSlice(T, val, out) ==
    Try(PackUsize(LenAsUsize(Len(val)), out), LAMBDA c :
    Try(PackElements(T, val, c.sz, c.out), LAMBDA e :
        PackPadding(padding(e.sz), e.sz, e.out)))

PackVec(T, val, out) == PackSlice(T, val, out)

\* self.as_bytes().pack(out)
PackStr(val, out) == PackSlice(U8, val, out)

PackOption(T, val, out) ==
    IF val = <<>> THEN PackBool(FALSE, out)
    ELSE Try(PackBool(TRUE, out), LAMBDA d :
         Try(Pack(T, val[1], d.out), LAMBDA p : PackOk(d.sz + p.sz, p.out)))

PackBox(T, val, out) == Pack(T, val.boxed, out)

Pack(T, v, out) ==
    CASE T[1] = "u8" -> PackU8(v, out)
      [] T[1] = "u32" -> PackU32(v, out)
      [] T[1] = "i32" -> PackI32(v, out)
      [] T[1] = "u64" -> PackU64(v, out)
      [] T[1] = "i64" -> PackI64(v, out)
      [] T[1] = "f32" -> PackF32(v, out)
      [] T[1] = "f64" -> PackF64(v, out)
      [] T[1] = "bool" -> PackBool(v, out)
      [] T[1] = "unit" -> PackUnit(v, out)
      [] T[1] = "usize" -> PackUsize(v, out)
      [] T[1] = "vec" -> PackVec(T[2], v, out)
      [] T[1] = "string" -> PackStr(v, out)
      [] T[1] = "option" -> PackOption(T[2], v, out)
      [] T[1] = "box" -> PackBox(T[2], v, out)

\* pack_array, writing the element count first as a slice does.
pack_array_counted(T, val, out) == PackSlice(T, val, out)

\* pub fn pack_array
pack_array(T, val, out) ==
    Try(PackElements(T, val, 0, out), LAMBDA e :
    Try(PackPadding(padding(e.sz), 0, e.out), LAMBDA p :
        PackOk(e.sz + p.sz, p.out)))

----------------------------------------------------------------------------
(* The byte source: a std::io::Read over buf, read from position pos.  log   *)
(* records every read the codec issues: where, how many bytes, and whether   *)
(* it succeeded.  A read past the end fails; how much of the remaining input *)
(* a failed read has consumed is unspecified by Read, and eats chooses       *)
(* between the two outcomes an in-memory source has: all of it, or none.     *)

Source(buf, pos, eats) == [buf |-> buf, pos |-> pos, log |-> <<>>, eats |-> eats]

\* The result of an unpack call: Ok((val, sz)) or Err(err), and the source as
\* it leaves it.
UnpackOk(val, sz, src) ==
    [ok |-> TRUE, err |-> "none", val |-> val, sz |-> sz, src |-> src]
UnpackErr(err, src) ==
    [ok |-> FALSE, err |-> err, val |-> <<>>, sz |-> 0, src |-> src]

\* input.read_<width>::<BigEndian>().map_err(Error::from): n bytes or
\* Error::Byteorder (byteorder's UnexpectedEOF).
ReadBytes(src, n) ==
    IF src.pos + n <= Len(src.buf)
    THEN UnpackOk(SubSeq(src.buf, src.pos + 1, src.pos + n), n,
                  [src EXCEPT !.pos = @ + n,
                              !.log = Append(@, [at |-> src.pos, n |-> n, ok |-> TRUE])])
    ELSE UnpackErr("Byteorder",
                  [src EXCEPT !.pos = IF src.eats THEN Len(src.buf) ELSE @,
                              !.log = Append(@, [at |-> src.pos, n |-> n, ok |-> FALSE])])

\* .map(|v| (v, n)) over a read of n bytes as a big-endian bit pattern
ReadScalar(src, n) ==
    Try(ReadBytes(src, n), LAMBDA r : UnpackOk(BigEndianValue(r.val), n, r.src))

----------------------------------------------------------------------------
(* Unpack *)

UnpackU8(src) == Try(ReadBytes(src, 1), LAMBDA r : UnpackOk(r.val[1], 1, r.src))
UnpackU32(src) == ReadScalar(src, 4)
UnpackI32(src) == ReadScalar(src, 4)
UnpackU64(src) == ReadScalar(src, 8)
UnpackI64(src) == ReadScalar(src, 8)
UnpackF32(src) == ReadScalar(src, 4)
UnpackF64(src) == ReadScalar(src, 8)

\* bool's unpack, taking every nonzero value for true.
UnpackBool_coerce(src) ==
    Try(UnpackU32(src), LAMBDA r : UnpackOk(r.val # <<0, 0>>, r.sz, r.src))

UnpackBool(src) ==
    Try(UnpackU32(src), LAMBDA r :
        CASE r.val = <<0, 0>> -> UnpackOk(FALSE, r.sz, r.src)
          [] r.val = <<0, 1>> -> UnpackOk(TRUE, r.sz, r.src)
          [] OTHER -> UnpackErr("InvalidEnum", r.src))

UnpackUnit(src) == UnpackOk(<<>>, 0, src)

UnpackUsize(src) ==
    Try(UnpackU32(src), LAMBDA r : UnpackOk(U32AsUsize(r.val), r.sz, r.src))

RECURSIVE Unpack(_, _)

\* `for _ in 0..elems { let (e, esz) = try!(Unpack::unpack(input)); out.push(e); sz += esz; }`
RECURSIVE UnpackElements(_, _, _, _, _)
UnpackElements(T, n, acc, sz, src) ==
    IF n = 0 THEN UnpackOk(acc, sz, src)
    ELSE Try(Unpack(T, src), LAMBDA r :
             UnpackElements(T, n - 1, Append(acc, r.val), sz + r.sz, r.src))

\* The padding loop, rejecting a padding byte that is not zero.
RECURSIVE UnpackPadding_strict(_, _, _, _)
UnpackPadding_strict(n, val, sz, src) ==
    IF n = 0 THEN UnpackOk(val, sz, src)
    ELSE Try(UnpackU8(src), LAMBDA r :
             IF r.val # 0 THEN UnpackErr("Generic", r.src)
             ELSE UnpackPadding_strict(n - 1, val, sz + r.sz, r.src))

\* `for _ in 0..n { let (_, psz): (u8, _) = try!(Unpack::unpack(input)); sz += psz; }`
RECURSIVE UnpackPadding(_, _, _, _)
UnpackPadding(n, val, sz, src) ==
    IF n = 0 THEN UnpackOk(val, sz, src)
    ELSE Try(UnpackU8(src), LAMBDA r : UnpackPadding(n - 1, val, sz + r.sz, r.src))

\* An Err that puts the source back at position pos.
Rewound(e, pos) == IF e.ok THEN e ELSE [e EXCEPT !.src.pos = pos]

\* Vec's unpack, putting the source back where it was when an element fails.
UnpackVec_rewind(T, src) ==
    Try(UnpackUsize(src), LAMBDA c :
    Try(Rewound(UnpackElements(T, RangeLen(c.val), <<>>, c.sz, c.src), src.pos),
        LAMBDA e : UnpackPadding(padding(e.sz), e.val, e.sz, e.src)))

UnpackVec(T, src) ==
    Try(UnpackUsize(src), LAMBDA c :
    Try(UnpackElements(T, RangeLen(c.val), <<>>, c.sz, c.src), LAMBDA e :
        UnpackPadding(padding(e.sz), e.val, e.sz, e.src)))

UnpackString(src) ==
    Try(UnpackVec(U8, src), LAMBDA r :
        IF IsUtf8(r.val) THEN UnpackOk(r.val, r.sz, r.src)
        ELSE UnpackErr("InvalidUtf8", r.src))

\* The Option a discriminant and an unpacked payload make.
Chosen(h, p) ==
    IF h.val THEN UnpackOk(<<p.val>>, h.sz + p.sz, p.src)
    ELSE UnpackOk(<<>>, h.sz, h.src)

\* Option's unpack, reading the payload before looking at the discriminant.
UnpackOption_eager(T, src) ==
    Try(UnpackBool(src), LAMBDA h :
    Try(Unpack(T, h.src), LAMBDA p : Chosen(h, p)))

UnpackOption(T, src) ==
    Try(UnpackBool(src), LAMBDA h :
        IF h.val
        THEN Try(Unpack(T, h.src), LAMBDA p : UnpackOk(<<p.val>>, h.sz + p.sz, p.src))
        ELSE UnpackOk(<<>>, h.sz, h.src))

UnpackBox(T, src) ==
    Try(Unpack(T, src), LAMBDA r : UnpackOk([boxed |-> r.val], r.sz, r.src))

Unpack(T, src) ==
    CASE T[1] = "u8" -> UnpackU8(src)
      [] T[1] = "u32" -> UnpackU32(src)
      [] T[1] = "i32" -> UnpackI32(src)
      [] T[1] = "u64" -> UnpackU64(src)
      [] T[1] = "i64" -> UnpackI64(src)
      [] T[1] = "f32" -> UnpackF32(src)
      [] T[1] = "f64" -> UnpackF64(src)
      [] T[1] = "bool" -> UnpackBool(src)
      [] T[1] = "unit" -> UnpackUnit(src)
      [] T[1] = "usize" -> UnpackUsize(src)
      [] T[1] = "vec" -> UnpackVec(T[2], src)
      [] T[1] = "string" -> UnpackString(src)
      [] T[1] = "option" -> UnpackOption(T[2], src)
      [] T[1] = "box" -> UnpackBox(T[2], src)

-----
(* The codec in use: a value is packed into a sink, the bytes written reach  *)
(* a reader whole, cut short or with one byte changed, and the reader        *)
(* unpacks a value of the type it expects from them.                         *)

VARIABLES
    phase,      \* "ready", "packed", "delivered", "done"; "idle" while main runs
    out,        \* the sink: [buf, cap]
    packed,     \* the last pack or pack_array call and what it returned
    input,      \* the bytes handed to the reader: [buf, pos, damage, at]
    got,        \* the last unpack call and what it returned
    mpc,        \* xdrgen main: "start", "opened", "generated", "exited"; "idle"
    args,       \* the FILE argument: <<>> or <<fname>>
    openable,   \* the file names File::open succeeds on
    res,        \* what generate returned: <<"none">>, <<"Ok">> or <<"Err", e>>
    errout,     \* the lines written to stderr
    status      \* the exit status of the process, -1 while it runs

codecVars == <<phase, out, packed, input, got>>
mainVars == <<mpc, args, openable, res, errout, status>>
vars == <<phase, out, packed, input, got, mpc, args, openable, res, errout, status>>

\* Bytes already in a sink that has been written to before.
PriorBytes == <<171, 205>>

\* The byte a damaged input carries in place of byte b.
Garble(b) == IF b = 2 THEN 3 ELSE 2

Sinks ==
    {[buf |-> <<>>, cap |-> -1],
     [buf |-> PriorBytes, cap |-> -1],
     [buf |-> <<>>, cap |-> SliceCap]}

\* Element types of the fixed-size arrays explored.
ArrayTypes == Scalars \cup {OptionOf(U8), VecOf(U8), Str}

\* Types a reader may expect whatever was written.
ReaderTypes == {Bool, OptionOf(U32), Str}

NoCall == [op |-> "none", ty |-> Unit, val |-> <<>>, before |-> <<>>,
           ok |-> FALSE, err |-> "none", sz |-> 0]
NoInput == [buf |-> <<>>, pos |-> 0, damage |-> "none", at |-> 0]
NoResult == [op |-> "none", ty |-> Unit, ok |-> FALSE, err |-> "none",
             val |-> <<>>, sz |-> 0, src |-> Source(<<>>, 0, FALSE)]

MainIdle ==
    /\ mpc = "idle"
    /\ args = <<>>
    /\ openable = {}
    /\ res = <<"none">>
    /\ errout = <<>>
    /\ status = -1

CodecIdle ==
    /\ phase = "idle"
    /\ out = [buf |-> <<>>, cap |-> -1]
    /\ packed = NoCall
    /\ input = NoInput
    /\ got = NoResult

Init ==
    /\ phase = "ready"
    /\ out \in Sinks
    /\ packed = NoCall
    /\ input = NoInput
    /\ got = NoResult
    /\ MainIdle

\* The call op of type T on v returned r: the sink is as r left it.
Returned(op, T, v, r) ==
    /\ out' = r.out
    /\ packed' = [op |-> op, ty |-> T, val |-> v, before |-> out.buf,
                  ok |-> r.ok, err |-> r.err, sz |-> r.sz]

\* val.pack(out)
DoPack(T, v) ==
    /\ phase = "ready"
    /\ Returned("pack", T, v, Pack(T, v, out))
    /\ phase' = "packed"
    /\ UNCHANGED <<input, got>>
    /\ UNCHANGED mainVars

\* pack_array(&val[..], out)
DoPackArray(T, v) ==
    /\ phase = "ready"
    /\ Returned("pack_array", T, v, pack_array(T, v, out))
    /\ phase' = "packed"
    /\ UNCHANGED <<input, got>>
    /\ UNCHANGED mainVars

Deliverable == phase = "packed" /\ packed.op = "pack" /\ packed.ok

\* The reader is given everything in the sink, positioned at the value.
DeliverIntact ==
    /\ Deliverable
    /\ input' = [buf |-> out.buf, pos |-> Len(packed.before),
                 damage |-> "none", at |-> 0]
    /\ phase' = "delivered"
    /\ UNCHANGED <<out, packed, got>>
    /\ UNCHANGED mainVars

\* The reader is given only the first k bytes of the value.
DeliverCut(k) ==
    /\ Deliverable
    /\ k < packed.sz
    /\ input' = [buf |-> SubSeq(out.buf, 1, Len(packed.before) + k),
                 pos |-> Len(packed.before), damage |-> "cut", at |-> k]
    /\ phase' = "delivered"
    /\ UNCHANGED <<out, packed, got>>
    /\ UNCHANGED mainVars

\* The reader is given the value with its byte i replaced.
DeliverGarbled(i) ==
    /\ Deliverable
    /\ i \in 1..packed.sz
    /\ input' = [buf |-> [out.buf EXCEPT ![Len(packed.before) + i] = Garble(@)],
                 pos |-> Len(packed.before), damage |-> "garbled", at |-> i]
    /\ phase' = "delivered"
    /\ UNCHANGED <<out, packed, got>>
    /\ UNCHANGED mainVars

\* The unpack call of type T returned r.
Unpacked(T, r) ==
    [op |-> "unpack", ty |-> T, ok |-> r.ok, err |-> r.err,
     val |-> r.val, sz |-> r.sz, src |-> r.src]

\* T::unpack(input)
DoUnpack(T, eats) ==
    /\ phase = "delivered"
    /\ got' = Unpacked(T, Unpack(T, Source(input.buf, input.pos, eats)))
    /\ phase' = "done"
    /\ UNCHANGED <<out, packed, input>>
    /\ UNCHANGED mainVars

Next ==
    \/ /\ phase = "ready"
       /\ \E T \in Types : \E v \in Values(T, MaxLen) : DoPack(T, v)
    \/ /\ phase = "ready"
       /\ \E T \in ArrayTypes :
            \E v \in SeqsUpTo(Values(T, Smaller(MaxLen)), MaxLen + 1) : DoPackArray(T, v)
    \/ DeliverIntact
    \/ /\ Deliverable
       /\ \E k \in 0..(packed.sz - 1) : DeliverCut(k)
    \/ /\ Deliverable
       /\ \E i \in 1..packed.sz : DeliverGarbled(i)
    \/ /\ phase = "delivered"
       /\ \E T \in {packed.ty} \cup ReaderTypes : \E eats \in BOOLEAN : DoUnpack(T, eats)

Spec == Init /\ [][Next]_vars

----------------------------------------------------------------------------
(* xdrgen's main *)

FileNames == {"a.x", "b.x", "c.x"}

\* The errors generate may return, by their Display text.
GenerateErrors == {"parse error", "write error"}

\* generate(infile, input, output): its parsing and code emission live in
\* the xdrgen library; main sees only Ok(()) or Err(e).
GenerateResults == {<<"Ok">>} \cup {<<"Err", e>> : e \in GenerateErrors}

MainInit ==
    /\ mpc = "start"
    /\ args \in {<<>>} \cup {<<f>> : f \in FileNames}
    /\ openable \in SUBSET FileNames
    /\ res = <<"none">>
    /\ errout = <<>>
    /\ status = -1
    /\ CodecIdle

\* File::open(fname) => Ok(f)
OpenFile ==
    /\ mpc = "start"
    /\ args # <<>>
    /\ args[1] \in openable
    /\ mpc' = "opened"
    /\ UNCHANGED <<args, openable, res, errout, status>>
    /\ UNCHANGED codecVars

\* File::open(fname) => Err(e): writeln!(err, "Failed to open ..."); exit(1)
OpenFails ==
    /\ mpc = "start"
    /\ args # <<>>
    /\ args[1] \notin openable
    /\ errout' = Append(errout, <<"Failed to open", args[1]>>)
    /\ status' = 1
    /\ mpc' = "exited"
    /\ UNCHANGED <<args, openable, res>>
    /\ UNCHANGED codecVars

\* generate(fname, BufReader::new(f), output)
GenerateFromFile(r) ==
    /\ mpc = "opened"
    /\ res' = r
    /\ mpc' = "generated"
    /\ UNCHANGED <<args, openable, errout, status>>
    /\ UNCHANGED codecVars

\* generate("stdin", BufReader::new(stdin()), output)
GenerateFromStdin(r) ==
    /\ mpc = "start"
    /\ args = <<>>
    /\ res' = r
    /\ mpc' = "generated"
    /\ UNCHANGED <<args, openable, errout, status>>
    /\ UNCHANGED codecVars

\* `if let Err(e) = res { writeln!(err, "Failed: {}", e) }`, and main returns.
ReportAndReturn ==
    /\ mpc = "generated"
    /\ errout' = IF res[1] = "Err" THEN Append(errout, <<"Failed:", res[2]>>)
                 ELSE errout
    /\ status' = 0
    /\ mpc' = "exited"
    /\ UNCHANGED <<args, openable, res>>
    /\ UNCHANGED codecVars

MainNext ==
    \/ OpenFile
    \/ OpenFails
    \/ \E r \in GenerateResults : GenerateFromFile(r)
    \/ \E r \in GenerateResults : GenerateFromStdin(r)
    \/ ReportAndReturn

MainSpec == MainInit /\ [][MainNext]_vars

----------------------------------------------------------------------------
(* What the claims speak of *)

\* A growable, empty sink.
Fresh == [buf |-> <<>>, cap |-> -1]

\* The bytes the last pack call added to the sink.
Appended == SubSeq(out.buf, Len(packed.before) + 1, Len(out.buf))

Zeros(p) == [i \in 1..p |-> 0]

\* The least p in 0..3 that makes n + p a multiple of 4.
LeastPad(n) == CHOOSE p \in 0..3 : (n + p) % 4 = 0 /\ \A q \in 0..3 : (n + q) % 4 = 0 => p <= q

\* The pack calls a composite makes, in order, as <<type, value>> pairs.
Children(op, T, v) ==
    IF op = "pack_array" THEN [i \in 1..Len(v) |-> <<T, v[i]>>]
    ELSE CASE T[1] = "vec" ->
                <<<<Usize, LenAsUsize(Len(v))>>>> \o [i \in 1..Len(v) |-> <<T[2], v[i]>>]
           [] T[1] = "string" ->
                <<<<Usize, LenAsUsize(Len(v))>>>> \o [i \in 1..Len(v) |-> <<U8, v[i]>>]
           [] T[1] = "option" ->
                IF v = <<>> THEN <<<<Bool, FALSE>>>> ELSE <<<<Bool, TRUE>>, <<T[2], v[1]>>>>
           [] T[1] = "box" -> <<<<T[2], v.boxed>>>>
           [] OTHER -> <<>>

IsComposite(op, T) == op = "pack_array" \/ T[1] \in {"vec", "string", "option", "box"}

RECURSIVE SumOfCounts(_)
SumOfCounts(cs) ==
    IF cs = <<>> THEN 0
    ELSE Pack(Head(cs)[1], Head(cs)[2], Fresh).sz + SumOfCounts(Tail(cs))

RECURSIVE Encodings(_)
Encodings(cs) ==
    IF cs = <<>> THEN <<>>
    ELSE Pack(Head(cs)[1], Head(cs)[2], Fresh).out.buf \o Encodings(Tail(cs))

\* The encodings of the elements of a sequence of T values, in order.
ElementBytes(T, v) == Encodings([i \in 1..Len(v) |-> <<T, v[i]>>])

\* The element type of a variable-length sequence type.
ElementType(T) == IF T[1] = "string" THEN U8 ELSE T[2]

IsSequence(T) == T[1] \in {"vec", "string"}

\* The next four bytes of the reader's input, or <<>> when it has fewer.
NextWord ==
    IF input.pos + 4 <= Len(input.buf)
    THEN SubSeq(input.buf, input.pos + 1, input.pos + 4) ELSE <<>>

RECURSIVE BytesRead(_)
BytesRead(log) ==
    IF log = <<>> THEN 0
    ELSE (IF Head(log).ok THEN Head(log).n ELSE 0) + BytesRead(Tail(log))

----------------------------------------------------------------------------
(* C1 *)

\* C1: a value packed into an empty sink and unpacked, as the same type, from
\* exactly the bytes written comes back equal, with the consumed count equal
\* to the count pack returned.
C1_RoundTrip ==
    (/\ phase = "done"
     /\ packed.before = <<>>
     /\ input.damage = "none"
     /\ got.ty = packed.ty)
    => (got.ok /\ got.val = packed.val /\ got.sz = packed.sz)

(* C2 *)

\* C2 as stated: every successful pack or pack_array call returns a multiple
\* of 4.
C2_EveryCountAligned ==
    (packed.op # "none" /\ packed.ok) => packed.sz % 4 = 0

\* A type whose count is not padded by anything: u8, and Option or Box
\* around such a type.
RECURSIVE EndsInByte(_)
EndsInByte(T) ==
    CASE T[1] = "u8" -> TRUE
      [] T[1] \in {"option", "box"} -> EndsInByte(T[2])
      [] OTHER -> FALSE

\* C2, amended: every successful pack_array call, and every successful pack
\* call on a type other than u8 and Option/Box chains ending in u8, returns
\* a multiple of 4; u8 itself returns 1.
C2_CountAlignedExceptByte ==
    (packed.op # "none" /\ packed.ok) =>
        /\ (packed.op = "pack_array" \/ ~EndsInByte(packed.ty)) => packed.sz % 4 = 0
        /\ (packed.op = "pack" /\ packed.ty = U8) => packed.sz = 1

C2_Witness ==
    /\ packed.op = "pack"
    /\ packed.ok
    /\ packed.ty = VecOf(OptionOf(U64))
    /\ Len(packed.val) = 2
    /\ packed.sz = 20

(* C3 *)

\* C3: a successful pack call returns the number of bytes it appended, leaves
\* the bytes already in the sink as they were, and a composite's count is the
\* sum of its children's counts plus the padding bytes it wrote itself.
C3_CountIsBytesAppended ==
    (packed.op # "none" /\ packed.ok) =>
        /\ Len(out.buf) = Len(packed.before) + packed.sz
        /\ SubSeq(out.buf, 1, Len(packed.before)) = packed.before
        /\ IsComposite(packed.op, packed.ty) =>
             LET cs == Children(packed.op, packed.ty, packed.val)
                 own == Len(Appended) - Len(Encodings(cs))
             IN  /\ own >= 0
                 /\ Appended = Encodings(cs) \o Zeros(own)
                 /\ packed.sz = SumOfCounts(cs) + own

C3_Witness ==
    /\ packed.op = "pack"
    /\ packed.ok
    /\ packed.before = PriorBytes
    /\ packed.ty = VecOf(U8)
    /\ Len(packed.val) = 2
    /\ packed.sz = 8

(* C4 *)

\* C4: unpacking a bool from a source whose next 4 bytes are the big-endian
\* u32 n gives (false, 4) for n = 0, (true, 4) for n = 1, and fails with
\* InvalidEnum for every other n.
C4_BoolUnpack ==
    (phase = "done" /\ got.ty = Bool /\ NextWord # <<>>) =>
        /\ NextWord = <<0, 0, 0, 0>> => (got.ok /\ got.val = FALSE /\ got.sz = 4)
        /\ NextWord = <<0, 0, 0, 1>> => (got.ok /\ got.val = TRUE /\ got.sz = 4)
        /\ NextWord \notin {<<0, 0, 0, 0>>, <<0, 0, 0, 1>>} =>
             (~got.ok /\ got.err = "InvalidEnum")

C4_Witness ==
    /\ phase = "done"
    /\ got.ty = Bool
    /\ NextWord = <<0, 0, 0, 2>>
    /\ ~got.ok
    /\ got.err = "InvalidEnum"

(* C5 *)

\* C5: packing a variable-length sequence of n elements writes n as a 4-byte
\* big-endian count, the n element encodings in order, and then the least
\* number p in 0..3 of zero bytes that makes the total a multiple of 4; an
\* empty sequence writes exactly the four count bytes.
C5_SequenceEncoding ==
    (packed.op = "pack" /\ packed.ok /\ IsSequence(packed.ty)) =>
        LET n == Len(packed.val)
            eb == ElementBytes(ElementType(packed.ty), packed.val)
        IN  /\ Appended = <<0, 0, 0, n>> \o eb \o Zeros(LeastPad(4 + Len(eb)))
            /\ n = 0 => Appended = <<0, 0, 0, 0>>

C5_Witness ==
    /\ packed.op = "pack"
    /\ packed.ok
    /\ packed.ty = VecOf(U8)
    /\ Len(packed.val) = 1
    /\ Len(Appended) = 8
    /\ SubSeq(Appended, 6, 8) = <<0, 0, 0>>

(* C6 *)

\* C6: None packs as the four bytes 0 0 0 0 and returns 4; Some(v) packs as
\* the discriminant 1 followed by v's encoding and returns 4 plus v's count.
\* Unpacking an Option reads the discriminant first; on 0 it returns None
\* having consumed 4 bytes and read nothing else; on 1 it reads one T and
\* returns Some of it.
C6_Optional ==
    /\ (packed.op = "pack" /\ packed.ok /\ packed.ty[1] = "option") =>
         IF packed.val = <<>>
         THEN Appended = <<0, 0, 0, 0>> /\ packed.sz = 4
         ELSE LET p == Pack(packed.ty[2], packed.val[1], Fresh)
              IN  /\ Appended = <<0, 0, 0, 1>> \o p.out.buf
                  /\ packed.sz = 4 + p.sz
    /\ (phase = "done" /\ got.ty[1] = "option" /\ NextWord # <<>>) =>
         /\ got.src.log[1] = [at |-> input.pos, n |-> 4, ok |-> TRUE]
         /\ NextWord = <<0, 0, 0, 0>> =>
              /\ got.ok
              /\ got.val = <<>>
              /\ got.sz = 4
              /\ Len(got.src.log) = 1
              /\ got.src.pos = input.pos + 4
         /\ NextWord = <<0, 0, 0, 1>> =>
              LET p == Unpack(got.ty[2], Source(input.buf, input.pos + 4, got.src.eats))
              IN  IF p.ok
                  THEN got.ok /\ got.val = <<p.val>> /\ got.sz = 4 + p.sz
                  ELSE ~got.ok /\ got.err = p.err

C6_Witness ==
    /\ phase = "done"
    /\ got.ty[1] = "option"
    /\ got.ok
    /\ got.val = <<>>
    /\ NextWord = <<0, 0, 0, 0>>
    /\ Len(input.buf) > input.pos + 4

(* C7 *)

\* C7 as stated: pack_array writes exactly the concatenation of its element
\* encodings, with no count and no padding of its own.
C7_ArrayIsConcatenation ==
    (packed.op = "pack_array" /\ packed.ok) =>
        Appended = ElementBytes(packed.ty, packed.val)

\* C7, amended: pack_array writes the concatenation of its element encodings
\* in order, with no count field, followed by the least number p in 0..3 of
\* zero bytes that makes the total a multiple of 4 (none when the elements'
\* encodings already total a multiple of 4).
C7_ArrayIsPaddedConcatenation ==
    (packed.op = "pack_array" /\ packed.ok) =>
        LET eb == ElementBytes(packed.ty, packed.val)
        IN  /\ Appended = eb \o Zeros(LeastPad(Len(eb)))
            /\ Len(eb) % 4 = 0 => Appended = eb

C7_Witness ==
    /\ packed.op = "pack_array"
    /\ packed.ok
    /\ packed.ty = U8
    /\ Len(packed.val) = 3
    /\ Len(Appended) = 4

(* C8 *)

\* C8: when a read made while unpacking a composite fails, or a child yields
\* InvalidEnum, the unpack call returns that error with no value, the failing
\* read is the last read issued, and what was read before it stays consumed.
C8_FailFast ==
    (phase = "done" /\ got.ty[1] \in {"vec", "string", "option", "box"}) =>
        LET log == got.src.log
            n == Len(log)
        IN  /\ \A i \in 1..n :
                 ~log[i].ok => (i = n /\ ~got.ok /\ got.err = "Byteorder")
            /\ (~got.ok /\ got.err = "Byteorder") => (n >= 1 /\ ~log[n].ok)
            /\ (~got.ok /\ got.err = "InvalidEnum") =>
                 /\ n >= 1
                 /\ log[n].ok
                 /\ log[n].n = 4
                 /\ SubSeq(input.buf, log[n].at + 1, log[n].at + 4)
                      \notin {<<0, 0, 0, 0>>, <<0, 0, 0, 1>>}
                 /\ got.src.pos = log[n].at + 4
            /\ ~got.ok => got.val = <<>>
            /\ \A i \in 1..n : log[i].at = input.pos + BytesRead(SubSeq(log, 1, i - 1))
            /\ got.src.pos >= input.pos + BytesRead(log)

C8_Witness ==
    /\ phase = "done"
    /\ got.ty[1] = "vec"
    /\ ~got.ok
    /\ got.err = "Byteorder"
    /\ Len(got.src.log) >= 3
    /\ got.src.pos > input.pos

(* C9 *)

\* Where the padding of the packed sequence starts, counted in bytes of its
\* encoding.
PaddingStart == 4 + Len(ElementBytes(ElementType(packed.ty), packed.val))

\* C9: every padding byte a variable-length encoding writes is 0, and an
\* input that differs from another only in a padding byte decodes to the
\* same value with the same consumed count, and is not rejected.
C9_PaddingIgnored ==
    /\ (packed.op = "pack" /\ packed.ok /\ IsSequence(packed.ty)) =>
         \A i \in (PaddingStart + 1)..Len(Appended) : Appended[i] = 0
    /\ (/\ phase = "done"
        /\ IsSequence(packed.ty)
        /\ got.ty = packed.ty
        /\ input.damage = "garbled"
        /\ input.at > PaddingStart) =>
         LET clean == Unpack(got.ty, Source(out.buf, input.pos, got.src.eats))
         IN  /\ clean.ok
             /\ got.ok
             /\ got.val = clean.val
             /\ got.sz = clean.sz

C9_Witness ==
    /\ phase = "done"
    /\ packed.ty = Str
    /\ got.ty = Str
    /\ input.damage = "garbled"
    /\ input.at > PaddingStart
    /\ input.buf # out.buf
    /\ got.ok

(* C10 *)

\* A run of main in which opening the input or generate failed.
RunFailed == res[1] = "Err" \/ (args # <<>> /\ args[1] \notin openable)

\* C10: every run of main in which a failure occurs writes the error to
\* stderr and ends with a nonzero exit status; a run ends with status 0 only
\* when generation succeeded.
C10_FailureExitsNonzero ==
    mpc = "exited" =>
        /\ RunFailed => (errout # <<>> /\ status # 0)
        /\ status = 0 => res = <<"Ok">>

====
